---------------------------- MODULE Spec2Model ----------------------------
(***************************************************************************)
(* Content generation abstraction layer of gemini-cli: the model resolver  *)
(* (packages/core/src/config/models.ts) and the OpenAI-compatible provider *)
(* adapters (KimiClient, KimiContentGenerator, HunyuanContentGenerator and *)
(* the three DeepSeek generators).                                         *)
(***************************************************************************)
EXTENDS Integers, Sequences, FiniteSets, TLC

(***************************************************************************)
(* Bounds of the model.                                                    *)
(***************************************************************************)
\* a requested model name is built from at most MaxSegs name segments
MaxSegs == 3
\* a response body delivers at most MaxLines complete lines before it ends
MaxLines == 3
\* turns of a request's contents, and parts of a turn
MaxTurns == 2
MaxParts == 2
\* embedContent calls made on one adapter instance
MaxEmbeds == 2

(***************************************************************************)
(* Strings whose characters matter (model names) are sequences of          *)
(* one-character strings, so that String.prototype.includes is a real      *)
(* substring search.                                                       *)
(***************************************************************************)
\* String.prototype.includes(sub)
Includes(s, sub) ==
  \E i \in 0..(Len(s) - Len(sub)) : SubSeq(s, i + 1, i + Len(sub)) = sub

MARK_LITE == <<"l","i","t","e">>
MARK_HUNYUAN == <<"h","u","n","y","u","a","n">>

SEG_GEMINI == <<"g","e","m","i","n","i","-","2",".","5">>
SEG_PRO == <<"-","p","r","o">>
SEG_FLASH == <<"-","f","l","a","s","h">>
SEG_DASH_LITE == <<"-","l","i","t","e">>
SEG_STANDARD == <<"-","s","t","a","n","d","a","r","d">>
SEG_LI == <<"l","i">>
SEG_TE == <<"t","e">>
SEG_HUN == <<"h","u","n">>
SEG_YUAN == <<"y","u","a","n">>
SEG_KIMI == <<"k","i","m","i","-","k","2">>
SEG_QWEN == <<"q","w","e","n","3">>
SEG_CUSTOM == <<"c","u","s","t","o","m">>

DEFAULT_GEMINI_MODEL == SEG_GEMINI \o SEG_PRO
DEFAULT_GEMINI_FLASH_MODEL == SEG_GEMINI \o SEG_FLASH
DEFAULT_GEMINI_FLASH_LITE_MODEL == SEG_GEMINI \o SEG_FLASH \o SEG_DASH_LITE
DEFAULT_HUNYUAN_MODEL == MARK_HUNYUAN \o SEG_PRO
DEFAULT_HUNYUAN_STANDARD_MODEL == MARK_HUNYUAN \o SEG_STANDARD
DEFAULT_HUNYUAN_LITE_MODEL == MARK_HUNYUAN \o SEG_DASH_LITE

\* the pieces requested model names are built from
Segments ==
  { SEG_GEMINI, SEG_PRO, SEG_FLASH, SEG_DASH_LITE, SEG_STANDARD, MARK_HUNYUAN,
    SEG_LI, SEG_TE, SEG_HUN, SEG_YUAN, SEG_KIMI, SEG_QWEN, SEG_CUSTOM }

RECURSIVE NamesOfSegs(_)
NamesOfSegs(n) ==
  IF n = 0 THEN { <<>> }
  ELSE { p \o s : p \in NamesOfSegs(n - 1), s \in Segments }

\* every requested model name the resolver is called with
ModelNames == UNION { NamesOfSegs(n) : n \in 1..MaxSegs }

(***************************************************************************)
(* Model resolver: getEffectiveModel(isInFallbackMode, requestedModel).    *)
(***************************************************************************)
\* mutant: the fallback flag is not consulted
getEffectiveModel_NoModeCheck(isInFallback, requested) ==
  IF Includes(requested, MARK_LITE) THEN requested
  ELSE IF Includes(requested, MARK_HUNYUAN) THEN DEFAULT_HUNYUAN_STANDARD_MODEL
  ELSE DEFAULT_GEMINI_FLASH_MODEL

\* mutant: the family downgrade is tested before the lite exception
getEffectiveModel_FamilyFirst(isInFallback, requested) ==
  IF ~isInFallback THEN requested
  ELSE IF Includes(requested, MARK_HUNYUAN) THEN DEFAULT_HUNYUAN_STANDARD_MODEL
  ELSE IF Includes(requested, MARK_LITE) THEN requested
  ELSE DEFAULT_GEMINI_FLASH_MODEL

\* mutant: no family downgrade, every non-lite model goes to Flash
getEffectiveModel_NoFamily(isInFallback, requested) ==
  IF ~isInFallback THEN requested
  ELSE IF Includes(requested, MARK_LITE) THEN requested
  ELSE DEFAULT_GEMINI_FLASH_MODEL

\* mutant: only the Pro model is downgraded, other names pass through
getEffectiveModel_OnlyPro(isInFallback, requested) ==
  IF ~isInFallback THEN requested
  ELSE IF Includes(requested, MARK_LITE) THEN requested
  ELSE IF Includes(requested, MARK_HUNYUAN) THEN DEFAULT_HUNYUAN_STANDARD_MODEL
  ELSE IF requested = DEFAULT_GEMINI_MODEL THEN DEFAULT_GEMINI_FLASH_MODEL
  ELSE requested

getEffectiveModel(isInFallback, requested) ==
  IF ~isInFallback THEN requested
  ELSE IF Includes(requested, MARK_LITE) THEN requested
  ELSE IF Includes(requested, MARK_HUNYUAN) THEN DEFAULT_HUNYUAN_STANDARD_MODEL
  ELSE DEFAULT_GEMINI_FLASH_MODEL

(***************************************************************************)
(* Provider adapters.  The repository holds six OpenAI-compatible adapter  *)
(* classes; three of them are called DeepSeek content generator, so the    *)
(* model names those by the file they are in.                              *)
(***************************************************************************)
KIMI_CLIENT == "KimiClient"                     \* kimiClient.ts:165
KIMI_CG == "KimiContentGenerator"               \* contentGenerator.test.ts:262
HUNYUAN == "HunyuanContentGenerator"            \* hunyuanContentGenerator.ts:27
DS_ACC == "DeepSeekContentGenerator@part_002"   \* part_002:97
DS_LOWER == "DeepseekContentGenerator@part_002" \* part_002:514
DS_FN == "DeepSeekContentGenerator@part_003"    \* part_003:322

Adapters == { KIMI_CLIENT, KIMI_CG, HUNYUAN, DS_ACC, DS_LOWER, DS_FN }

(***************************************************************************)
(* Lines of a streaming response body.  A line is                          *)
(*   blank    : ''                                                         *)
(*   comment  : a line that does not start with 'data: '                   *)
(*   done     : 'data: [DONE]'                                             *)
(*   garbage  : 'data: ' followed by text JSON.parse rejects               *)
(*   chunk    : 'data: ' followed by a JSON stream chunk                   *)
(* A chunk has choices[0] or not (hasChoice), choices[0].delta.content     *)
(* ('' when absent), choices[0].finish_reason (UNDEF when absent) and an   *)
(* optional usage object.                                                  *)
(***************************************************************************)
UNDEF == "undefined"

NoUsage == [present |-> FALSE, prompt |-> 0, completion |-> 0, total |-> 0]

Usage(p, c, t) == [present |-> TRUE, prompt |-> p, completion |-> c, total |-> t]

Line(k, hasChoice, content, finish, usage) ==
  [kind |-> k, hasChoice |-> hasChoice, content |-> content,
   finish |-> finish, usage |-> usage]

BlankLine == Line("blank", FALSE, "", UNDEF, NoUsage)
CommentLine == Line("comment", FALSE, "", UNDEF, NoUsage)
DoneLine == Line("done", FALSE, "", UNDEF, NoUsage)
GarbageLine == Line("garbage", FALSE, "", UNDEF, NoUsage)
\* no line: the body ended right after a newline
NoLine == Line("none", FALSE, "", UNDEF, NoUsage)

Chunk(content, finish) == Line("chunk", TRUE, content, finish, NoUsage)

\* a chunk with choices: [] that only reports usage
UsageChunk == Line("chunk", FALSE, "", UNDEF, Usage(10, 5, 15))

\* the chunks a provider sends
Chunks ==
  { Chunk("He", UNDEF), Chunk("llo", UNDEF), Chunk("", UNDEF),
    Chunk("", "stop"), Chunk("", "length"), Chunk("!", "content_filter"),
    UsageChunk }

\* the complete lines a body is made of
Lines == Chunks \cup { DoneLine, GarbageLine, BlankLine, CommentLine }

\* what a body can end with after its last newline
Tails == { NoLine, Chunk("llo", UNDEF), Chunk("", "stop"), GarbageLine }

(***************************************************************************)
(* Unified responses.  candidates is FALSE for a response whose candidates *)
(* array is empty; parts is the parts array of candidates[0].content.      *)
(***************************************************************************)
TextPart(t) == [text |-> t]

Response(parts, finishReason, usage) ==
  [candidates |-> TRUE, parts |-> parts, finishReason |-> finishReason,
   usageMetadata |-> usage]

EmptyResponse ==
  [candidates |-> FALSE, parts |-> <<>>, finishReason |-> UNDEF,
   usageMetadata |-> NoUsage]

RECURSIVE JoinText(_)
\* the text of a response: the texts of its parts, concatenated
JoinText(parts) ==
  IF parts = <<>> THEN "" ELSE parts[1].text \o JoinText(Tail(parts))

(***************************************************************************)
(* Finish-reason mapping of each adapter's stream path.                    *)
(***************************************************************************)
\* KimiContentGenerator.mapFinishReason: mapping[reason] || 'OTHER' on an
\* object literal, so a key of Object.prototype yields that inherited member
ObjectPrototypeKeys == { "constructor", "toString", "valueOf", "hasOwnProperty" }

mapFinishReason(reason) ==
  CASE reason = "stop" -> "STOP"
    [] reason = "length" -> "MAX_TOKENS"
    [] reason = "content_filter" -> "SAFETY"
    [] reason \in ObjectPrototypeKeys -> "[Function: " \o reason \o "]"
    [] OTHER -> "OTHER"

\* DeepSeekContentGenerator@part_002.convertFinishReason
convertFinishReason(reason) ==
  CASE reason = "stop" -> "STOP"
    [] reason = "length" -> "MAX_TOKENS"
    [] reason = "content_filter" -> "SAFETY"
    [] OTHER -> "OTHER"

\* the conditional in DeepseekContentGenerator.convertResponse/convertStreamResponse
lowerFinishReason(reason) ==
  IF reason = "stop" THEN "STOP"
  ELSE IF reason = "length" THEN "MAX_TOKENS"
  ELSE "OTHER"

(***************************************************************************)
(* State of one in-flight generateContentStream call.                      *)
(***************************************************************************)
InitStream ==
  [ pc |-> "reading",            \* "reading": in the read loop; "closed": returned
    acc |-> "",                  \* accumulatedContent / accumulatedText
    usageMetadata |-> NoUsage,   \* KimiClient, DS_ACC: let usageMetadata
    isFirstChunk |-> TRUE,       \* DS_ACC
    totalTokens |-> 0,           \* Hunyuan
    promptTokens |-> 0,          \* Hunyuan
    candidatesTokenCount |-> 0,  \* Hunyuan
    out |-> <<>>,                \* the responses yielded so far, in order
    released |-> 0 ]             \* calls of reader.releaseLock()

Yield(s, r) == [s EXCEPT !.out = Append(@, r)]

\* mutant: the generator returns without reaching the finally block
Return_NoRelease(s) == [s EXCEPT !.pc = "closed"]

\* return from the generator body inside try: the finally block runs
Return(s) == [s EXCEPT !.pc = "closed", !.released = @ + 1]

HasContent(line) == line.hasChoice /\ line.content # ""
HasFinish(line) == line.hasChoice /\ line.finish # UNDEF

\* --- KimiClient.generateContentStream, kimiClient.ts:303-344 ---
KimiClientLine(s, line) ==
  IF line.kind # "chunk" THEN s
  ELSE
    LET acc1 == IF HasContent(line) THEN s.acc \o line.content ELSE s.acc
        s1 == IF HasContent(line)
              THEN Yield([s EXCEPT !.acc = acc1],
                         Response(<<TextPart(acc1)>>, line.finish, NoUsage))
              ELSE s
    IN IF HasFinish(line)
       THEN [s1 EXCEPT !.usageMetadata =
                         Usage(0, Len(acc1) \div 4, Len(acc1) \div 4)]
       ELSE s1

\* kimiClient.ts:347-365: the final response, then finally
KimiClientEnd(s, tail) ==
  Return(IF s.acc # ""
         THEN Yield(s, Response(<<TextPart(s.acc)>>, "STOP", s.usageMetadata))
         ELSE s)

\* --- KimiContentGenerator.generateContentStream, contentGenerator.test.ts:386-400 ---
\* convertOpenAIStreamResponseToGenAI, contentGenerator.test.ts:485-511
convertOpenAIStreamResponseToGenAI(line) ==
  IF ~line.hasChoice THEN EmptyResponse
  ELSE Response(IF line.content # "" THEN <<TextPart(line.content)>> ELSE <<>>,
                IF line.finish # UNDEF THEN mapFinishReason(line.finish) ELSE UNDEF,
                NoUsage)

KimiCGLine(s, line) ==
  CASE line.kind = "done" -> Return(s)
    [] line.kind = "chunk" -> Yield(s, convertOpenAIStreamResponseToGenAI(line))
    [] OTHER -> s

KimiCGEnd(s, tail) == Return(s)

\* --- DeepseekContentGenerator.generateContentStream, part_002:607-620 ---
\* convertStreamResponse, part_002:763-798
convertStreamResponse(line) ==
  Response(<<TextPart(IF line.hasChoice THEN line.content ELSE "")>>,
           IF HasFinish(line) THEN lowerFinishReason(line.finish) ELSE UNDEF,
           NoUsage)

DSLowerLine(s, line) ==
  CASE line.kind = "done" -> Return(s)
    [] line.kind = "chunk" -> Yield(s, convertStreamResponse(line))
    [] OTHER -> s

DSLowerEnd(s, tail) == Return(s)

\* --- DeepSeekContentGenerator@part_003.generateContentStream, part_003:485-515 ---
\* convertDeepSeekStreamChunkToGemini, part_003:250-317
\* (the generator yields the converted value directly; the record here is the
\* GenerateContentResponse that convertDeepSeekStreamChunkToGemini builds)
convertDeepSeekStreamChunkToGemini(line) ==
  IF ~line.hasChoice THEN EmptyResponse
  ELSE Response(IF line.content # "" THEN <<TextPart(line.content)>> ELSE <<>>,
                IF line.finish = "stop" THEN "STOP" ELSE UNDEF,
                line.usage)

DSFnLine(s, line) ==
  IF line.kind = "chunk" THEN Yield(s, convertDeepSeekStreamChunkToGemini(line))
  ELSE s

\* part_003:501-515: the text left in the buffer is processed as one more line
DSFnEnd(s, tail) == Return(DSFnLine(s, tail))

\* --- DeepSeekContentGenerator@part_002.generateContentStream, part_002:367-457 ---
DSAccLine(s, line) ==
  IF line.kind # "chunk" \/ ~line.hasChoice THEN s
  ELSE
    LET acc1 == IF line.content # "" THEN s.acc \o line.content ELSE s.acc
        parts == IF acc1 # "" THEN <<TextPart(acc1)>> ELSE <<>>
        shown == IF parts # <<>> THEN parts ELSE <<TextPart("")>>
    IN IF line.finish # UNDEF
       THEN [Yield(s, Response(shown, convertFinishReason(line.finish),
                               s.usageMetadata))
               EXCEPT !.acc = ""]
       ELSE IF parts # <<>> \/ s.isFirstChunk
       THEN [Yield(s, Response(shown, UNDEF, NoUsage))
               EXCEPT !.acc = acc1, !.isFirstChunk = FALSE]
       ELSE [s EXCEPT !.acc = acc1]

DSAccEnd(s, tail) == Return(s)

\* --- HunyuanContentGenerator.streamGenerator, hunyuanContentGenerator.ts:83-107 ---
\* the OpenAI SDK hands over parsed chunks; the generator holds no reader
HunyuanLine(s, line) ==
  LET acc1 == IF HasContent(line) THEN s.acc \o line.content ELSE s.acc
      cand == IF HasContent(line) THEN s.candidatesTokenCount + 1
              ELSE s.candidatesTokenCount
      total == IF line.usage.present THEN line.usage.total ELSE s.totalTokens
      prompt == IF line.usage.present THEN line.usage.prompt ELSE s.promptTokens
      usage == Usage(prompt, cand, IF total # 0 THEN total ELSE prompt + cand)
  IN Yield([s EXCEPT !.acc = acc1, !.candidatesTokenCount = cand,
                     !.totalTokens = total, !.promptTokens = prompt],
           Response(<<TextPart(acc1)>>, UNDEF, usage))

HunyuanEnd(s, tail) == [s EXCEPT !.pc = "closed"]

\* mutant: a line JSON.parse rejects ends the stream
ProcessLine_ParseErrorEnds(a, s, line) ==
  IF line.kind = "garbage" THEN Return(s)
  ELSE CASE a = KIMI_CLIENT -> KimiClientLine(s, line)
         [] a = KIMI_CG -> KimiCGLine(s, line)
         [] a = DS_LOWER -> DSLowerLine(s, line)
         [] a = DS_FN -> DSFnLine(s, line)
         [] a = DS_ACC -> DSAccLine(s, line)
         [] a = HUNYUAN -> HunyuanLine(s, line)

\* what adapter a does with one complete line of the body
ProcessLine(a, s, line) ==
  CASE a = KIMI_CLIENT -> KimiClientLine(s, line)
    [] a = KIMI_CG -> KimiCGLine(s, line)
    [] a = DS_LOWER -> DSLowerLine(s, line)
    [] a = DS_FN -> DSFnLine(s, line)
    [] a = DS_ACC -> DSAccLine(s, line)
    [] a = HUNYUAN -> HunyuanLine(s, line)

\* what adapter a does when reader.read() reports done, the buffer holding tail
EndOfBody(a, s, tail) ==
  CASE a = KIMI_CLIENT -> KimiClientEnd(s, tail)
    [] a = KIMI_CG -> KimiCGEnd(s, tail)
    [] a = DS_LOWER -> DSLowerEnd(s, tail)
    [] a = DS_FN -> DSFnEnd(s, tail)
    [] a = DS_ACC -> DSAccEnd(s, tail)
    [] a = HUNYUAN -> HunyuanEnd(s, tail)

\* the lines adapter a can be handed
LinesFor(a) == IF a = HUNYUAN THEN Chunks ELSE Lines
TailsFor(a) == IF a = HUNYUAN THEN { NoLine } ELSE Tails

(***************************************************************************)
(* generateContent: the provider's reply to the one POST is a record       *)
(*   hasChoice : choices[0] exists                                         *)
(*   content   : choices[0].message.content ('' when null or absent)       *)
(*   finish    : choices[0].finish_reason                                  *)
(*   usage     : the usage object, or NoUsage when the reply has none      *)
(* and the outcome of the call is a returned response or a thrown error.   *)
(***************************************************************************)
Reply(hasChoice, content, finish, usage) ==
  [hasChoice |-> hasChoice, content |-> content, finish |-> finish,
   usage |-> usage]

\* the finish_reason strings a provider reply carries
FinishReasons ==
  { "stop", "length", "content_filter", "tool_calls",
    "insufficient_system_resource", "constructor" }

Replies ==
  { Reply(h, c, f, u) : h \in BOOLEAN, c \in { "", "Hi there" },
                        f \in FinishReasons, u \in { NoUsage, Usage(5, 3, 8) } }

Returned(r) == [status |-> "returned", response |-> r, error |-> ""]
Threw(e) == [status |-> "threw", response |-> EmptyResponse, error |-> e]
Pending == [status |-> "pending", response |-> EmptyResponse, error |-> ""]

\* usage?.x || 0
UsageOrZero(u) == IF u.present THEN u ELSE Usage(0, 0, 0)

\* kimiClient.ts:134-160
convertKimiResponseToGemini(reply) ==
  IF ~reply.hasChoice THEN Threw("No choice in Kimi API response")
  ELSE IF ~reply.usage.present THEN Threw("TypeError")
  ELSE Returned(Response(<<TextPart(reply.content)>>, reply.finish, reply.usage))

\* contentGenerator.test.ts:457-483
convertOpenAIResponseToGenAI(reply) ==
  IF ~reply.hasChoice THEN Threw("No choice in Kimi API response")
  ELSE Returned(Response(<<TextPart(reply.content)>>,
                         mapFinishReason(reply.finish), UsageOrZero(reply.usage)))

\* hunyuanContentGenerator.ts:210-248
convertFromOpenAIResponse(reply) ==
  Returned(Response(<<TextPart(IF reply.hasChoice THEN reply.content ELSE "")>>,
                    UNDEF, UsageOrZero(reply.usage)))

\* part_002:208-251
convertResponseToGenerateContentResponse(reply) ==
  IF ~reply.hasChoice THEN Threw("No choices in DeepSeek response")
  ELSE IF ~reply.usage.present THEN Threw("TypeError")
  ELSE Returned(Response(IF reply.content # "" THEN <<TextPart(reply.content)>>
                         ELSE <<>>,
                         convertFinishReason(reply.finish), reply.usage))

\* part_002:725-761
convertResponse(reply) ==
  Returned(Response(<<TextPart(IF reply.hasChoice THEN reply.content ELSE "")>>,
                    IF reply.hasChoice THEN lowerFinishReason(reply.finish)
                    ELSE "OTHER",
                    NoUsage))

\* part_003:187-245
convertDeepSeekResponseToGemini(reply) ==
  IF ~reply.hasChoice THEN Threw("No choice in DeepSeek response")
  ELSE IF ~reply.usage.present THEN Threw("TypeError")
  ELSE Returned(Response(IF reply.content # "" THEN <<TextPart(reply.content)>>
                         ELSE <<>>,
                         IF reply.finish = "stop" THEN "STOP" ELSE "OTHER",
                         reply.usage))

\* generateContent of adapter a on a successful HTTP reply
generateContent(a, reply) ==
  CASE a = KIMI_CLIENT -> convertKimiResponseToGemini(reply)
    [] a = KIMI_CG -> convertOpenAIResponseToGenAI(reply)
    [] a = HUNYUAN -> convertFromOpenAIResponse(reply)
    [] a = DS_ACC -> convertResponseToGenerateContentResponse(reply)
    [] a = DS_LOWER -> convertResponse(reply)
    [] a = DS_FN -> convertDeepSeekResponseToGemini(reply)

(***************************************************************************)
(* Construction, the HTTP exchange of generateContent, and embedContent.   *)
(***************************************************************************)
\* the outcomes of `new Adapter(apiKey)`: the instance exists or the
\* constructor threw.  HunyuanContentGenerator hands the key to the OpenAI
\* SDK's constructor, whose check is not part of this code: either outcome.
constructor(a, apiKey) ==
  CASE a = KIMI_CLIENT -> IF apiKey = "" THEN { "threw" } ELSE { "constructed" }
    [] a = HUNYUAN -> IF apiKey = "" THEN { "threw", "constructed" }
                      ELSE { "constructed" }
    [] OTHER -> { "constructed" }

\* the provider's HTTP answer: status line and body; message is
\* body.error.message when the body is JSON that has one, UNDEF otherwise
HttpReply(ok, status, statusText, text, message) ==
  [ok |-> ok, status |-> status, statusText |-> statusText,
   body |-> [text |-> text, message |-> message]]

HttpReplies ==
  { HttpReply(TRUE, "200", "OK", "", UNDEF),
    HttpReply(FALSE, "401", "Unauthorized",
              "{\"error\":{\"message\":\"Invalid Authentication\"}}",
              "Invalid Authentication"),
    HttpReply(FALSE, "500", "Internal Server Error", "upstream unavailable",
              UNDEF) }

\* the pieces interpolated into the message of the Error thrown on !response.ok
errorMessage(a, http) ==
  CASE a = KIMI_CLIENT ->
         <<"Kimi API error: ", http.status, http.statusText, http.body.text>>
    [] a = KIMI_CG ->
         <<"Kimi API error: ",
           IF http.body.message # UNDEF THEN http.body.message
           ELSE http.statusText>>
    [] a = DS_ACC -> <<"DeepSeek API error: ", http.status, http.body.text>>
    [] a = DS_LOWER ->
         <<"Deepseek API error: ", http.status, http.statusText, http.body.text>>
    [] a = DS_FN ->
         <<"DeepSeek API error: ", http.status, http.statusText, http.body.text>>
    [] a = HUNYUAN -> <<"openai.APIError">>

\* generateContent after the one POST has been answered with http and, when
\* the status is a success, the JSON body reply
fetchAndConvert(a, http, reply) ==
  IF http.ok THEN generateContent(a, reply) ELSE Threw(errorMessage(a, http))

\* the message of the Error embedContent throws
EmbedError(a) ==
  CASE a = KIMI_CLIENT -> "Embeddings are not supported by Kimi API"
    [] a = KIMI_CG -> "Embedding is not supported for Kimi models"
    [] a = HUNYUAN -> "Embedding is not supported for Hunyuan models"
    [] a = DS_ACC -> "Embedding is not supported for DeepSeek models"
    [] a = DS_LOWER -> "Embedding is not supported for Deepseek models"
    [] a = DS_FN -> "Embedding is not supported by DeepSeek API"

\* mutant: KimiClient posts the embedding request and fails on the answer
embedContent_Posts(a, request) ==
  [outcome |-> Threw(EmbedError(a)),
   fetches |-> IF a = KIMI_CLIENT THEN 1 ELSE 0]

\* embedContent: the outcome of the call and the HTTP requests it issued
embedContent(a, request) ==
  [outcome |-> Threw(EmbedError(a)), fetches |-> 0]

\* the requests embedContent is called with
EmbedRequests == { <<"Hi">>, <<"Hi", "there">>, <<>> }

(***************************************************************************)
(* KimiClient.mapModelToKimi, kimiClient.ts:404-431.  Model names are      *)
(* sequences of characters.                                                *)
(***************************************************************************)
\* String.prototype.toLowerCase on the letters the names here are made of
LowerChar(c) ==
  CASE c = "K" -> "k" [] c = "I" -> "i" [] c = "M" -> "m" [] c = "P" -> "p"
    [] c = "R" -> "r" [] c = "O" -> "o" [] OTHER -> c

toLowerCase(name) == [i \in 1..Len(name) |-> LowerChar(name[i])]

startsWith(name, prefix) ==
  Len(name) >= Len(prefix) /\ SubSeq(name, 1, Len(prefix)) = prefix

KIMI_DASH == <<"k","i","m","i","-">>
MOONSHOT_DASH == <<"m","o","o","n","s","h","o","t","-">>
MOONSHOT_V1_8K == MOONSHOT_DASH \o <<"v","1","-","8","k">>
MOONSHOT_V1_32K == MOONSHOT_DASH \o <<"v","1","-","3","2","k">>
MOONSHOT_V1_128K == MOONSHOT_DASH \o <<"v","1","-","1","2","8","k">>
NAME_CONSTRUCTOR == <<"c","o","n","s","t","r","u","c","t","o","r">>

\* the own keys of the modelMap object literal
modelMap ==
  (KIMI_DASH \o <<"1">> :> MOONSHOT_V1_8K)
    @@ (KIMI_DASH \o <<"2">> :> MOONSHOT_V1_32K)
    @@ (KIMI_DASH \o <<"3">> :> MOONSHOT_V1_128K)
    @@ (KIMI_DASH \o <<"p","r","o">> :> MOONSHOT_V1_8K)
    @@ (KIMI_DASH \o <<"p","l","u","s">> :> MOONSHOT_V1_32K)
    @@ (KIMI_DASH \o <<"m","a","x">> :> MOONSHOT_V1_128K)
    @@ (MOONSHOT_V1_8K :> MOONSHOT_V1_8K)
    @@ (MOONSHOT_V1_32K :> MOONSHOT_V1_32K)
    @@ (MOONSHOT_V1_128K :> MOONSHOT_V1_128K)

\* modelMap[key] for a key the literal inherits from Object.prototype
InheritedMember == <<"[", "F", "u", "n", "c", "t", "i", "o", "n", "]">>

mapModelToKimi(name) ==
  LET lowerModel == toLowerCase(name)
  IN IF lowerModel \in DOMAIN modelMap THEN modelMap[lowerModel]
     ELSE IF lowerModel = NAME_CONSTRUCTOR THEN InheritedMember
     ELSE IF startsWith(lowerModel, KIMI_DASH)
             \/ startsWith(lowerModel, MOONSHOT_DASH)
     THEN name
     ELSE MOONSHOT_V1_32K

\* the model names of requests: a family prefix and a variant
KimiModelNames ==
  ({ pre \o var :
      pre \in { KIMI_DASH, <<"K","I","M","I","-">>, MOONSHOT_DASH,
                <<"g","e","m","i","n","i","-">>, <<"q","w","e","n","-">>,
                <<"k","i","m","i">>, <<>> },
      var \in { <<"1">>, <<"2">>, <<"3">>, <<"p","r","o">>, <<"P","R","O">>,
                <<"p","l","u","s">>, <<"m","a","x">>, <<"k","2">>,
                <<"v","1","-","8","k">>, <<"v","1","-","3","2","k">>,
                <<"v","1","-","1","2","8","k">>, <<"v","2">>,
                <<"2",".","5","-","p","r","o">>, <<>> } }
     \cup { NAME_CONSTRUCTOR }) \ { <<>> }

(***************************************************************************)
(* Translation of a request to the provider's message list.  A message is  *)
(* [role, content, images]: content is the content string (the joined text *)
(* when the content is an array), images the image_url entries of an array *)
(* content.  A system instruction is given in one of the forms of          *)
(* `string | Part | Part[] | Content`, or is absent.                       *)
(***************************************************************************)
SystemInstruction(form, parts) == [form |-> form, parts |-> parts]

SystemInstructions ==
  { SystemInstruction("absent", <<>>),
    SystemInstruction("string", <<TextPart("Be brief")>>),
    SystemInstruction("part", <<TextPart("Be brief")>>),
    SystemInstruction("parts", <<TextPart("Be"), TextPart("brief")>>),
    SystemInstruction("content", <<TextPart("Be"), TextPart("brief")>>) }

Message(role, content, images) ==
  [role |-> role, content |-> content, images |-> images]

RECURSIVE Join(_, _)
\* Array.prototype.join
Join(texts, sep) ==
  IF texts = <<>> THEN ""
  ELSE IF Len(texts) = 1 THEN texts[1]
  ELSE texts[1] \o sep \o Join(Tail(texts), sep)

\* JSON.stringify of the objects the parts here hold
JSONStringify(v) ==
  CASE v = [path |-> "a.txt"] -> "{\"path\":\"a.txt\"}"
    [] v = [name |-> "read_file", response |-> [output |-> "ok"]] ->
         "{\"name\":\"read_file\",\"response\":{\"output\":\"ok\"}}"

\* a system message content that is the instruction object, not a string
OBJECT_CONTENT == "[object]"

NonEmpty(t) == t # ""

\* the text each part of a turn contributes, '' when it contributes none
PartTexts(a, role, parts) ==
  [i \in 1..Len(parts) |->
     LET part == parts[i]
     IN IF "text" \in DOMAIN part
        THEN (IF a = DS_LOWER THEN "" ELSE part.text)
        ELSE IF "functionResponse" \in DOMAIN part /\ role = "user"
        THEN CASE a = DS_ACC -> JSONStringify(part.functionResponse)
               [] a = DS_FN -> "[Function Response: "
                                 \o JSONStringify(part.functionResponse) \o "]"
               [] OTHER -> ""
        ELSE IF "functionCall" \in DOMAIN part /\ role = "model" /\ a = DS_FN
        THEN "[Function Call: " \o part.functionCall.name \o "("
               \o JSONStringify(part.functionCall.args) \o ")]"
        ELSE ""]

\* the image_url entries of a user turn (part_002:127-135)
ImageUrls(a, role, parts) ==
  IF a = DS_ACC /\ role = "user"
  THEN LET inl == SelectSeq(parts, LAMBDA q : "inlineData" \in DOMAIN q)
       IN [i \in 1..Len(inl) |->
             "data:" \o inl[i].inlineData.mimeType \o ";base64,"
               \o inl[i].inlineData.data]
  ELSE <<>>

\* the messages one turn becomes: none or one
TurnMessages(a, turn) ==
  LET texts == SelectSeq(PartTexts(a, turn.role, turn.parts), NonEmpty)
      images == ImageUrls(a, turn.role, turn.parts)
      role == IF turn.role = "model" THEN "assistant" ELSE turn.role
      sep == IF a \in { KIMI_CLIENT, DS_LOWER } THEN "" ELSE "\n"
      msg == Message(role, Join(texts, sep), images)
  IN CASE a = DS_LOWER -> <<msg>>
       [] a = DS_ACC ->
            IF turn.role = "model" \/ images # <<>> \/ texts # <<>>
            THEN <<msg>> ELSE <<>>
       [] OTHER -> IF texts # <<>> THEN <<msg>> ELSE <<>>

\* the leading system message: none or one
SystemMessages(a, si) ==
  LET texts == [i \in 1..Len(si.parts) |-> si.parts[i].text]
  IN IF si.form = "absent" THEN <<>>
     ELSE CASE a = KIMI_CLIENT ->
                 IF Join(texts, "") # ""
                 THEN <<Message("system", Join(texts, ""), <<>>)>> ELSE <<>>
            [] a = DS_FN ->
                 IF si.form = "part" \/ SelectSeq(texts, NonEmpty) = <<>>
                 THEN <<>>
                 ELSE <<Message("system",
                                Join(SelectSeq(texts, NonEmpty), "\n"), <<>>)>>
            [] a = DS_ACC ->
                 <<Message("system",
                           IF si.form = "string" THEN texts[1]
                           ELSE OBJECT_CONTENT, <<>>)>>
            [] OTHER -> <<>>

RECURSIVE AllTurnMessages(_, _)
AllTurnMessages(a, cs) ==
  IF cs = <<>> THEN <<>>
  ELSE TurnMessages(a, cs[1]) \o AllTurnMessages(a, Tail(cs))

\* the message list adapter a sends for contents and a system instruction
convertContentsToMessages(a, cs, si) ==
  SystemMessages(a, si) \o AllTurnMessages(a, cs)

\* the parts adapter a's generateContent builds from a provider reply whose
\* message is msg
convertMessageToParts(a, msg) ==
  generateContent(a, Reply(TRUE, msg.content, "stop", Usage(1, 1, 2))).response.parts

\* the generator of adapter a run on a list of complete lines
RECURSIVE RunLines(_, _, _)
RunLines(a, s, lines) ==
  IF lines = <<>> \/ s.pc # "reading" THEN s
  ELSE RunLines(a, ProcessLine(a, s, Head(lines)), Tail(lines))

\* one whole generateContentStream call of adapter a on a body that delivered
\* lines and, when ended, ended with tl in the buffer
Replay(a, lines, ended, tl) ==
  LET s == RunLines(a, InitStream, lines)
  IN IF ended /\ s.pc = "reading" THEN EndOfBody(a, s, tl) ELSE s

(***************************************************************************)
(* Requests.  contents is a list of turns [role, parts]; a part is a       *)
(* record with exactly one of the fields text, inlineData, functionCall,   *)
(* functionResponse, as the Part objects of @google/genai are used here.   *)
(***************************************************************************)
InlinePart == [inlineData |-> [mimeType |-> "image/png", data |-> "QUJD"]]
CallPart == [functionCall |-> [name |-> "read_file", args |-> [path |-> "a.txt"]]]
ResultPart ==
  [functionResponse |-> [name |-> "read_file", response |-> [output |-> "ok"]]]

Turn(role, parts) == [role |-> role, parts |-> parts]

\* the sequences of at most n elements of S
RECURSIVE SeqsUpTo(_, _)
SeqsUpTo(S, n) ==
  IF n = 0 THEN { <<>> }
  ELSE LET shorter == SeqsUpTo(S, n - 1)
       IN shorter \cup { Append(q, x) : q \in shorter, x \in S }

\* the contents lists with turns of the given roles and parts
ContentsOf(roles, parts) ==
  SeqsUpTo({ Turn(r, ps) : r \in roles, ps \in SeqsUpTo(parts, MaxParts) },
           MaxTurns)

\* part.text is present and truthy
HasText(part) == "text" \in DOMAIN part /\ part.text # ""

RECURSIVE TextLengths(_)
\* the lengths of the non-empty text parts of contents, in order
TextLengths(contents) ==
  IF contents = <<>> THEN <<>>
  ELSE LET texts == SelectSeq(contents[1].parts, HasText)
       IN [i \in 1..Len(texts) |-> Len(texts[i].text)]
            \o TextLengths(Tail(contents))

\* Math.ceil(n / 4)
CeilQuarter(n) == (n + 3) \div 4

RECURSIVE Sum(_)
Sum(ns) == IF ns = <<>> THEN 0 ELSE ns[1] + Sum(Tail(ns))

\* countTokens of adapter a on request.contents
countTokens(a, contents) ==
  LET lens == TextLengths(contents)
  IN CASE a \in { KIMI_CLIENT, DS_LOWER, DS_FN } -> CeilQuarter(Sum(lens))
       [] a \in { KIMI_CG, DS_ACC } ->
            Sum([i \in 1..Len(lens) |-> CeilQuarter(lens[i])])
       [] a = HUNYUAN -> 0

VARIABLES
  isInFallbackMode,   \* resolver input: the fallback-mode flag
  requestedModel,     \* resolver input: the requested model name
  effectiveModel,     \* resolver output
  resolved,           \* TRUE once getEffectiveModel has returned
  adapter,            \* the adapter whose generateContentStream is running
  received,           \* the complete lines the body has delivered so far
  bodyDone,           \* TRUE once reader.read() has reported done
  tail,               \* what the buffer held when the body ended
  stream,             \* the state of the generator (see InitStream)
  reply,              \* the provider's reply to a generateContent call
  result,             \* the outcome of the generateContent call
  apiKey,             \* the key the adapter is constructed with
  instance,           \* "none", then "constructed" or "threw"
  http,               \* the provider's HTTP answer to the POST
  fetches,            \* HTTP requests issued so far
  embeds,             \* the outcomes of the embedContent calls so far
  contents,           \* request.contents of a countTokens or generate call
  totalTokens,        \* <<n>> once countTokens has returned n, <<>> before
  model,              \* request.model of a KimiClient call
  kimiModel,          \* what mapModelToKimi returned, <<>> before it returns
  systemInstruction,  \* the request's system instruction
  messages,           \* the provider message list built for the request
  echo,               \* the parts built from the provider echoing a message
  msgPc,              \* "start", "converted", "echoed"
  ending,             \* "none", or how the stream was cut short: "error", "cancelled"
  second,             \* a second generateContentStream call on the same instance
  historyFile,        \* the lines of session-history.md, <<>> while it does not exist
  added,              \* the entries handed to the completed performAddSessionHistoryEntry calls
  calls,              \* the performAddSessionHistoryEntry calls in flight
  memoryFile,         \* the pieces content.split('\n') of the memory file, <<>> while it does not exist
  originalContent,    \* what the last clear_memory execute read, <<>> before
  allowlist,          \* ClearMemoryToolInvocation.allowlist
  invocations,        \* the clear_memory invocations so far, the last one possibly in progress
  toolFrames,         \* the tool-call frames a DeepSeek stream has read
  toolStream,         \* the tool-call state of that stream and the parts it emitted
  body,               \* the response body as a list of byte runs, "\n" being a run of its own
  delivered,          \* how many runs of the body reader.read() has delivered
  buffer              \* let buffer of the generator: the text after the last newline

resolverVars == <<isInFallbackMode, requestedModel, effectiveModel, resolved>>
streamVars == <<received, bodyDone, tail, stream>>
genVars == <<reply, result, apiKey, instance, http, fetches, embeds>>
countVars == <<contents, totalTokens>>
mapVars == <<model, kimiModel>>
msgVars == <<systemInstruction, messages, echo, msgPc>>
historyVars == <<historyFile, added, calls>>
memoryVars == <<memoryFile, originalContent, allowlist, invocations>>
toolVars == <<toolFrames, toolStream>>
chunkVars == <<body, delivered, buffer>>
laterVars == <<ending, second, historyVars, memoryVars, toolVars, chunkVars>>
callVars == <<countVars, mapVars, msgVars, laterVars>>

vars == <<isInFallbackMode, requestedModel, effectiveModel, resolved,
          adapter, received, bodyDone, tail, stream, reply, result,
          apiKey, instance, http, fetches, embeds, callVars>>

(***************************************************************************)
(* The resolver as a state machine: one call on inputs drawn by Init.      *)
(***************************************************************************)
ResolverIdle ==
  /\ isInFallbackMode = FALSE
  /\ requestedModel = <<>>
  /\ effectiveModel = <<>>
  /\ resolved = TRUE

StreamIdle ==
  /\ received = <<>>
  /\ bodyDone = TRUE
  /\ tail = NoLine
  /\ stream = [InitStream EXCEPT !.pc = "closed"]

GenIdle ==
  /\ reply = Reply(FALSE, "", "", NoUsage)
  /\ result = Threw("")
  /\ apiKey = ""
  /\ instance = "none"
  /\ http = HttpReply(TRUE, "200", "OK", "", UNDEF)
  /\ fetches = 0
  /\ embeds = <<>>

CountIdle ==
  /\ contents = <<>>
  /\ totalTokens = <<0>>

MapIdle ==
  /\ model = <<>>
  /\ kimiModel = MOONSHOT_V1_32K

MsgIdle ==
  /\ systemInstruction = SystemInstruction("absent", <<>>)
  /\ messages = <<>>
  /\ echo = <<>>
  /\ msgPc = "echoed"

EndIdle == ending = "none"

TwoIdle ==
  second = [received |-> <<>>, bodyDone |-> TRUE,
            stream |-> [InitStream EXCEPT !.pc = "closed"]]

HistoryIdle ==
  /\ historyFile = <<>>
  /\ added = <<>>
  /\ calls = <<>>

MemoryIdle ==
  /\ memoryFile = <<>>
  /\ originalContent = <<>>
  /\ allowlist = {}
  /\ invocations = <<>>

ToolIdle ==
  /\ toolFrames = <<>>
  /\ toolStream = [accumulatedToolCalls |-> <<>>, isFirstChunk |-> TRUE,
                   out |-> <<>>]

ChunkIdle ==
  /\ body = <<>>
  /\ delivered = 0
  /\ buffer = ""

LaterIdle ==
  /\ EndIdle
  /\ TwoIdle
  /\ HistoryIdle
  /\ MemoryIdle
  /\ ToolIdle /\ ChunkIdle

CallsIdle == CountIdle /\ MapIdle /\ MsgIdle /\ LaterIdle

ResolverInit ==
  /\ isInFallbackMode \in BOOLEAN
  /\ requestedModel \in ModelNames
  /\ effectiveModel = <<>>
  /\ resolved = FALSE
  /\ adapter = KIMI_CLIENT
  /\ StreamIdle
  /\ GenIdle
  /\ CallsIdle

\* one call of getEffectiveModel on the inputs drawn by ResolverInit
Resolve ==
  /\ ~resolved
  /\ effectiveModel' = getEffectiveModel(isInFallbackMode, requestedModel)
  /\ resolved' = TRUE
  /\ UNCHANGED <<isInFallbackMode, requestedModel>>
  /\ UNCHANGED <<adapter, streamVars, genVars, callVars>>

ResolverNext == Resolve

SpecResolver == ResolverInit /\ [][ResolverNext]_vars

(***************************************************************************)
(* One generateContentStream call as a state machine: the generator is     *)
(* suspended in reader.read(); the body delivers one more complete line,   *)
(* or ends.                                                                *)
(***************************************************************************)
Init ==
  /\ ResolverIdle
  /\ adapter \in Adapters
  /\ received = <<>>
  /\ bodyDone = FALSE
  /\ tail = NoLine
  /\ stream = InitStream
  /\ GenIdle
  /\ CallsIdle

\* the body delivers a complete line and the read loop processes it
ReadLine(line) ==
  /\ stream.pc = "reading"
  /\ ~bodyDone
  /\ Len(received) < MaxLines
  /\ received' = Append(received, line)
  /\ stream' = ProcessLine(adapter, stream, line)
  /\ UNCHANGED <<adapter, bodyDone, tail>>
  /\ UNCHANGED <<resolverVars, genVars, callVars>>

\* reader.read() reports done while the buffer holds tl
BodyEnds(tl) ==
  /\ stream.pc = "reading"
  /\ ~bodyDone
  /\ bodyDone' = TRUE
  /\ tail' = tl
  /\ stream' = EndOfBody(adapter, stream, tl)
  /\ UNCHANGED <<adapter, received>>
  /\ UNCHANGED <<resolverVars, genVars, callVars>>

Next ==
  \/ \E line \in LinesFor(adapter) : ReadLine(line)
  \/ \E tl \in TailsFor(adapter) : BodyEnds(tl)

Spec == Init /\ [][Next]_vars

(***************************************************************************)
(* One generateContent call as a state machine: the POST has been answered *)
(* with reply; the adapter converts it.                                    *)
(***************************************************************************)
GenInit ==
  /\ ResolverIdle
  /\ StreamIdle
  /\ adapter \in Adapters
  /\ apiKey \in { "", "sk-test" }
  /\ instance = "none"
  /\ http \in HttpReplies
  /\ reply \in Replies
  /\ result = Pending
  /\ fetches = 0
  /\ embeds = <<>>
  /\ CallsIdle

\* new Adapter(apiKey)
Construct ==
  /\ instance = "none"
  /\ instance' \in constructor(adapter, apiKey)
  /\ UNCHANGED <<adapter, reply, result, apiKey, http, fetches, embeds>>
  /\ UNCHANGED <<resolverVars, streamVars, callVars>>

\* generateContent: one POST, then the conversion of the answer or the throw
GenerateContent ==
  /\ instance = "constructed"
  /\ result.status = "pending"
  /\ fetches' = fetches + 1
  /\ result' = fetchAndConvert(adapter, http, reply)
  /\ UNCHANGED <<adapter, reply, apiKey, instance, http, embeds>>
  /\ UNCHANGED <<resolverVars, streamVars, callVars>>

EmbedContent(request) ==
  /\ instance = "constructed"
  /\ Len(embeds) < MaxEmbeds
  /\ embeds' = Append(embeds, embedContent(adapter, request).outcome)
  /\ fetches' = fetches + embedContent(adapter, request).fetches
  /\ UNCHANGED <<adapter, reply, result, apiKey, instance, http>>
  /\ UNCHANGED <<resolverVars, streamVars, callVars>>

GenNext ==
  \/ Construct
  \/ GenerateContent
  \/ \E request \in EmbedRequests : EmbedContent(request)

SpecGenerate == GenInit /\ [][GenNext]_vars

(***************************************************************************)
(* One countTokens call as a state machine.                                *)
(***************************************************************************)
\* the contents countTokens is called with
CountContents ==
  ContentsOf({ "user" }, { TextPart("a"), TextPart("abcd"), InlinePart })

CountInit ==
  /\ ResolverIdle
  /\ StreamIdle
  /\ GenIdle
  /\ LaterIdle
  /\ adapter \in Adapters
  /\ contents \in CountContents
  /\ totalTokens = <<>>
  /\ MapIdle
  /\ MsgIdle

CountTokens ==
  /\ totalTokens = <<>>
  /\ totalTokens' = <<countTokens(adapter, contents)>>
  /\ UNCHANGED <<adapter, resolverVars, streamVars, genVars>>
  /\ UNCHANGED <<contents, mapVars, msgVars, laterVars>>

CountNext == CountTokens

SpecCountTokens == CountInit /\ [][CountNext]_vars

(***************************************************************************)
(* Claims about the model resolver, checked under SpecResolver.            *)
(***************************************************************************)

\* C1: outside fallback mode getEffectiveModel returns the requested model
\* name unchanged, for every model name.
C1_FallbackOffIsIdentity ==
  (resolved /\ ~isInFallbackMode) => effectiveModel = requestedModel

C1_Witness ==
  resolved /\ ~isInFallbackMode /\ requestedModel = DEFAULT_HUNYUAN_MODEL

\* C2: in fallback mode every name containing 'lite' is returned unchanged,
\* also when the name contains the hunyuan family marker.
C2_LiteIsHonored ==
  (resolved /\ isInFallbackMode /\ Includes(requestedModel, MARK_LITE))
    => effectiveModel = requestedModel

C2_Witness ==
  /\ resolved /\ isInFallbackMode
  /\ requestedModel = DEFAULT_HUNYUAN_LITE_MODEL
  /\ effectiveModel = DEFAULT_HUNYUAN_LITE_MODEL

\* C3: in fallback mode every name that contains 'hunyuan' and not 'lite'
\* resolves to 'hunyuan-standard', never to 'gemini-2.5-flash'.
C3_HunyuanFamilyFallback ==
  (/\ resolved /\ isInFallbackMode
   /\ Includes(requestedModel, MARK_HUNYUAN)
   /\ ~Includes(requestedModel, MARK_LITE))
    => /\ effectiveModel = DEFAULT_HUNYUAN_STANDARD_MODEL
       /\ effectiveModel # DEFAULT_GEMINI_FLASH_MODEL

C3_Witness ==
  /\ resolved /\ isInFallbackMode
  /\ requestedModel = DEFAULT_HUNYUAN_MODEL
  /\ effectiveModel = DEFAULT_HUNYUAN_STANDARD_MODEL

\* C4: in fallback mode every name containing neither 'lite' nor the hunyuan
\* family marker resolves to 'gemini-2.5-flash' (Pro, Kimi K2, Qwen and custom
\* names are downgraded to it, Flash resolves to itself).
C4_DefaultFallback ==
  (/\ resolved /\ isInFallbackMode
   /\ ~Includes(requestedModel, MARK_HUNYUAN)
   /\ ~Includes(requestedModel, MARK_LITE))
    => effectiveModel = DEFAULT_GEMINI_FLASH_MODEL

C4_Witness ==
  /\ resolved /\ isInFallbackMode
  /\ requestedModel = SEG_KIMI \o SEG_CUSTOM
  /\ effectiveModel = DEFAULT_GEMINI_FLASH_MODEL

(***************************************************************************)
(* Claims about generateContentStream, checked under Spec.                 *)
(***************************************************************************)
\* the unified finish reason the claims state for a provider finish_reason
UnifiedFinishReason(r) ==
  CASE r = "stop" -> "STOP"
    [] r = "length" -> "MAX_TOKENS"
    [] r = "content_filter" -> "SAFETY"
    [] OTHER -> "OTHER"

RECURSIVE FragmentsOf(_)
\* the content fragments of the chunks among lines, concatenated in order
FragmentsOf(lines) ==
  IF lines = <<>> THEN ""
  ELSE (IF lines[1].kind = "chunk" /\ lines[1].hasChoice
        THEN lines[1].content ELSE "") \o FragmentsOf(Tail(lines))

\* every line received is a valid frame
AllChunks(lines) == \A i \in 1..Len(lines) : lines[i].kind = "chunk"

\* line k is the only finish signal of the body, no chunk follows it, and the
\* generator has returned after the body ended on a newline
FinishThenEnd(k) ==
  /\ stream.pc = "closed"
  /\ tail = NoLine
  /\ k \in 1..Len(received)
  /\ received[k].kind = "chunk" /\ HasFinish(received[k])
  /\ \A i \in 1..Len(received) :
       (i # k /\ received[i].kind = "chunk") => (i < k /\ ~HasFinish(received[i]))

\* C5: for every sequence of valid frames, each response emitted carries the
\* concatenation of the content fragments of all frames received so far.
C5_CumulativeSnapshots ==
  [][(AllChunks(received') /\ tail' = NoLine) =>
       \A j \in (Len(stream.out) + 1)..Len(stream'.out) :
         JoinText(stream'.out[j].parts) = FragmentsOf(received')]_vars

\* C6: when the provider signals a finish and the body then ends, exactly one
\* response carrying a finish reason is emitted and it is the last response,
\* also when no text was accumulated.
C6_OneFinalResponseLast ==
  \A k \in 1..Len(received) :
    FinishThenEnd(k) =>
      /\ stream.out # <<>>
      /\ stream.out[Len(stream.out)].finishReason # UNDEF
      /\ Cardinality({ j \in 1..Len(stream.out) :
                         stream.out[j].finishReason # UNDEF }) = 1

\* a line is unparseable when JSON.parse rejects its payload
Parseable(line) == line.kind # "garbage"

\* C7: a malformed frame never ends or fails a stream: the responses emitted
\* are exactly those emitted for the same lines with the unparseable ones
\* removed, and the generator is in the same position.
C7_MalformedFramesDropped ==
  LET clean == Replay(adapter, SelectSeq(received, Parseable), bodyDone,
                      IF Parseable(tail) THEN tail ELSE NoLine)
  IN /\ stream.out = clean.out
     /\ stream.pc = clean.pc

C7_Witness ==
  /\ adapter = KIMI_CLIENT
  /\ received = <<Chunk("He", UNDEF), GarbageLine, Chunk("llo", UNDEF)>>
  /\ Len(stream.out) = 2
  /\ JoinText(stream.out[2].parts) = "Hello"

\* C8: once the '[DONE]' sentinel has been read the stream terminates: lines
\* that arrive after it add nothing to the accumulated text and cause no
\* response.
C8_NothingAfterSentinel ==
  \A k \in 1..Len(received) :
    (received[k].kind = "done" /\ stream.pc = "reading") =>
      LET atDone == RunLines(adapter, InitStream, SubSeq(received, 1, k))
      IN /\ stream.out = atDone.out
         /\ stream.acc = atDone.acc

\* C9: the final response of a stream carries the unified finish reason mapped
\* from the provider's finish_reason, with the text accumulated up to the
\* finish signal.
C9_FinalCarriesMappedReason ==
  \A k \in 1..Len(received) :
    (FinishThenEnd(k) /\ stream.out # <<>>) =>
      LET final == stream.out[Len(stream.out)]
      IN /\ final.finishReason = UnifiedFinishReason(received[k].finish)
         /\ JoinText(final.parts) = FragmentsOf(SubSeq(received, 1, k))

RECURSIVE LastUsage(_)
\* the usage most recently reported by the provider among lines
LastUsage(lines) ==
  IF lines = <<>> THEN NoUsage
  ELSE IF lines[Len(lines)].kind = "chunk" /\ lines[Len(lines)].usage.present
  THEN lines[Len(lines)].usage
  ELSE LastUsage(SubSeq(lines, 1, Len(lines) - 1))

\* C11: where the layer estimates tokens the estimate is ceil(C / 4) of the
\* characters of text: when the provider reported no usage, the token count of
\* a finished stream's final response is ceil(C / 4) of the text it carries.
C11_EstimateIsCeilQuarter ==
  (stream.pc = "closed" /\ stream.out # <<>> /\ ~LastUsage(received).present) =>
    LET final == stream.out[Len(stream.out)]
    IN final.usageMetadata.present =>
         final.usageMetadata.completion = CeilQuarter(Len(JoinText(final.parts)))

\* C13: once a chunk of the stream has reported usage, every response emitted
\* from then on carries the prompt, completion and total counts most recently
\* reported by the provider.
C13_ProviderUsageWins ==
  [][LastUsage(received').present =>
       \A j \in (Len(stream.out) + 1)..Len(stream'.out) :
         stream'.out[j].usageMetadata = LastUsage(received')]_vars

(***************************************************************************)
(* Claims about generateContent, checked under SpecGenerate.               *)
(***************************************************************************)
UnifiedFinishReasons == { "STOP", "MAX_TOKENS", "SAFETY", "OTHER" }

\* C10: for every provider finish_reason r the response returned by each
\* adapter's generateContent reports STOP for 'stop', MAX_TOKENS for 'length',
\* SAFETY for 'content_filter' and OTHER for every other string; the value is
\* always one of these four.
C10_FinishReasonMapped ==
  result.status = "returned" =>
    /\ result.response.finishReason = UnifiedFinishReason(reply.finish)
    /\ result.response.finishReason \in UnifiedFinishReasons

\* C14: constructing an adapter with an empty API key fails at construction,
\* so an adapter built with an empty key never issues a network request
\* (HunyuanContentGenerator leaves the check of the key to the OpenAI SDK).
C14_EmptyKeyFailsAtConstruction ==
  (apiKey = "" /\ adapter # HUNYUAN) =>
    /\ instance # "constructed"
    /\ fetches = 0

\* C15: when the provider answers generateContent with a non-success status
\* the call throws an error that carries the status code and the response
\* body, nothing is returned, and exactly one HTTP request was made
\* (HunyuanContentGenerator's requests and errors are the OpenAI SDK's).
C15_HttpErrorCarriesStatusAndBody ==
  (~http.ok /\ result.status # "pending" /\ adapter # HUNYUAN) =>
    /\ result.status = "threw"
    /\ \E i \in 1..Len(result.error) : result.error[i] = http.status
    /\ \E i \in 1..Len(result.error) : result.error[i] = http.body.text
    /\ fetches = 1

\* C16: embedContent fails for every request on every adapter, with the same
\* error on every call, and never issues a network call: the only HTTP request
\* of an instance is the one of its generateContent call.
C16_EmbedContentAlwaysFails ==
  /\ \A i \in 1..Len(embeds) :
       /\ embeds[i].status = "threw"
       /\ embeds[i] = embeds[1]
  /\ fetches = (IF result.status = "pending" THEN 0 ELSE 1)

C16_Witness ==
  /\ adapter = HUNYUAN
  /\ apiKey = "sk-test"
  /\ Len(embeds) = 2
  /\ embeds[2].error = "Embedding is not supported for Hunyuan models"
  /\ result.status = "returned"
  /\ fetches = 1

(***************************************************************************)
(* One mapModelToKimi call of a KimiClient as a state machine.             *)
(***************************************************************************)
MapInit ==
  /\ ResolverIdle
  /\ StreamIdle
  /\ GenIdle
  /\ LaterIdle
  /\ CountIdle
  /\ adapter = KIMI_CLIENT
  /\ model \in KimiModelNames
  /\ kimiModel = <<>>
  /\ MsgIdle

MapModelToKimi ==
  /\ kimiModel = <<>>
  /\ kimiModel' = mapModelToKimi(model)
  /\ UNCHANGED <<adapter, model, resolverVars, streamVars, genVars, countVars,
                 msgVars, laterVars>>

MapNext == MapModelToKimi

SpecMapModel == MapInit /\ [][MapNext]_vars

\* C17: mapModelToKimi sends each known alias to its canonical Moonshot model
\* identifier and passes every unrecognized model name through unchanged.
C17_UnknownModelPassesThrough ==
  kimiModel # <<>> =>
    IF toLowerCase(model) \in DOMAIN modelMap
    THEN kimiModel = modelMap[toLowerCase(model)]
    ELSE kimiModel = model

(***************************************************************************)
(* The translation of one request as a state machine: the adapter builds   *)
(* the message list; the provider then echoes the last assistant message   *)
(* and the adapter's response conversion builds parts from it.             *)
(***************************************************************************)
MsgInit ==
  /\ ResolverIdle
  /\ StreamIdle
  /\ GenIdle
  /\ LaterIdle
  /\ MapIdle
  /\ adapter \in Adapters
  /\ contents \in ContentsOf({ "user", "model" },
                            { TextPart("Hi"), InlinePart, CallPart, ResultPart })
  /\ totalTokens = <<>>
  /\ systemInstruction \in SystemInstructions
  /\ messages = <<>>
  /\ echo = <<>>
  /\ msgPc = "start"

ConvertContents ==
  /\ msgPc = "start"
  /\ messages' = convertContentsToMessages(adapter, contents, systemInstruction)
  /\ msgPc' = "converted"
  /\ UNCHANGED <<adapter, contents, totalTokens, systemInstruction, echo>>
  /\ UNCHANGED <<resolverVars, streamVars, genVars, mapVars, laterVars>>

ConvertEcho ==
  /\ msgPc = "converted"
  /\ messages # <<>>
  /\ messages[Len(messages)].role = "assistant"
  /\ echo' = convertMessageToParts(adapter, messages[Len(messages)])
  /\ msgPc' = "echoed"
  /\ UNCHANGED <<adapter, contents, totalTokens, systemInstruction, messages>>
  /\ UNCHANGED <<resolverVars, streamVars, genVars, mapVars, laterVars>>

MsgNext == ConvertContents \/ ConvertEcho

SpecMessages == MsgInit /\ [][MsgNext]_vars

\* t occurs in s
Contains(s, t) ==
  \E i \in 1..(Len(s) - Len(t) + 1) : SubSeq(s, i, i + Len(t) - 1) = t

\* the texts of the text parts among parts
TextsOf(parts) ==
  LET ts == SelectSeq(parts, LAMBDA q : "text" \in DOMAIN q)
  IN [i \in 1..Len(ts) |-> ts[i].text]

\* C18: the message list begins with exactly one system-role message holding
\* the system instruction's text when an instruction is present, in any of its
\* forms, and contains no system message when it is absent.
C18_OneLeadingSystemMessage ==
  msgPc # "start" =>
    LET sys == SelectSeq(messages, LAMBDA m : m.role = "system")
        texts == TextsOf(systemInstruction.parts)
    IN IF systemInstruction.form = "absent" THEN sys = <<>>
       ELSE /\ Len(sys) = 1
            /\ messages[1].role = "system"
            /\ messages[1].content
                 \in { Join(texts, ""), Join(texts, " "), Join(texts, "\n") }

\* part is represented in the message list ms, natively or as text
Represented(part, ms) ==
  \E k \in 1..Len(ms) :
    CASE "text" \in DOMAIN part -> Contains(ms[k].content, part.text)
      [] "inlineData" \in DOMAIN part ->
           \/ \E u \in 1..Len(ms[k].images) :
                Contains(ms[k].images[u], part.inlineData.data)
           \/ Contains(ms[k].content, part.inlineData.data)
      [] "functionCall" \in DOMAIN part ->
           /\ Contains(ms[k].content, part.functionCall.name)
           /\ Contains(ms[k].content, part.functionCall.args.path)
      [] "functionResponse" \in DOMAIN part ->
           /\ Contains(ms[k].content, part.functionResponse.name)
           /\ Contains(ms[k].content, part.functionResponse.response.output)

\* C19: translation loses no part: every part of every user or model turn is
\* represented in the provider message list, natively or as text.
C19_NoPartDropped ==
  msgPc # "start" =>
    \A i \in 1..Len(contents) :
      \A j \in 1..Len(contents[i].parts) :
        Represented(contents[i].parts[j], messages)

\* C20: a model turn translated to the provider format and back keeps all its
\* text and recovers every tool call as a tool call with the same name and
\* equal arguments.
C20_RoundTripKeepsTextAndCalls ==
  (msgPc = "echoed" /\ Len(contents) = 1 /\ contents[1].role = "model") =>
    LET sent == contents[1].parts
        IsCall(q) == "functionCall" \in DOMAIN q
    IN /\ SelectSeq(echo, IsCall) = SelectSeq(sent, IsCall)
       /\ Join(TextsOf(echo), "")
            \in { Join(TextsOf(sent), ""), Join(TextsOf(sent), "\n") }

(***************************************************************************)
(* Claims about countTokens, checked under SpecCountTokens.                *)
(***************************************************************************)
\* the number of characters of text in contents
TextLength(cs) == Sum(TextLengths(cs))

\* C12: the estimate is never negative and is monotonic in text length: a
\* request with less text than another never counts more tokens than it,
\* however the text is divided into parts and turns.
C12_CountTokensMonotonic ==
  totalTokens # <<>> =>
    /\ totalTokens[1] >= 0
    /\ \A b \in CountContents :
         TextLength(contents) < TextLength(b) =>
           totalTokens[1] <= countTokens(adapter, b)


(***************************************************************************)
(* The ways a generateContentStream call is cut short.  The read loop and  *)
(* every yield sit in try { } finally { reader.releaseLock() }: a rejected *)
(* reader.read() and a return() of the consumer both leave through the     *)
(* finally block.  The Hunyuan adapter iterates the SDK's stream and holds *)
(* no reader.                                                              *)
(***************************************************************************)
\* the generator is suspended at a yield: the last line read emitted a response
AtYield ==
  /\ stream.pc = "reading"
  /\ received # <<>>
  /\ Len(stream.out) >
       Len(RunLines(adapter, InitStream,
                    SubSeq(received, 1, Len(received) - 1)).out)

\* reader.read() rejects: the exception leaves the try, the finally block runs
ReadFails ==
  /\ stream.pc = "reading"
  /\ ~bodyDone
  /\ ending' = "error"
  /\ stream' = IF adapter = HUNYUAN THEN [stream EXCEPT !.pc = "closed"]
               ELSE Return(stream)
  /\ UNCHANGED <<adapter, received, bodyDone, tail>>
  /\ UNCHANGED <<resolverVars, genVars, countVars, mapVars, msgVars, second>>
  /\ UNCHANGED <<historyVars, memoryVars, toolVars, chunkVars>>

\* the consumer leaves its for await loop: return() resumes the generator at
\* the yield with a return completion, the finally block runs
Cancel ==
  /\ AtYield
  /\ ending' = "cancelled"
  /\ stream' = IF adapter = HUNYUAN THEN [stream EXCEPT !.pc = "closed"]
               ELSE Return(stream)
  /\ UNCHANGED <<adapter, received, bodyDone, tail>>
  /\ UNCHANGED <<resolverVars, genVars, countVars, mapVars, msgVars, second>>
  /\ UNCHANGED <<historyVars, memoryVars, toolVars, chunkVars>>

EndsNext ==
  \/ \E line \in LinesFor(adapter) : ReadLine(line)
  \/ \E tl \in TailsFor(adapter) : BodyEnds(tl)
  \/ ReadFails
  \/ Cancel

SpecStreamEnds == Init /\ [][EndsNext]_vars

\* C21: on every way a stream ends (end of body, transport error, the
\* consumer cancelling) the body reader is released exactly once, never while
\* the stream is still being read, and a cancelled stream has emitted exactly
\* the responses yielded before the cancellation: nothing follows it, in
\* particular no synthetic final response
C21_ReleasedOnceOnEveryEnding ==
  /\ stream.released <= 1
  /\ (stream.pc = "reading") => (stream.released = 0)
  /\ (stream.pc = "closed" /\ adapter # HUNYUAN) => (stream.released = 1)
  /\ (ending = "cancelled") => (stream.out = RunLines(adapter, InitStream, received).out)

C21_Witness ==
  /\ adapter = KIMI_CLIENT
  /\ ending = "cancelled"
  /\ stream.acc # ""
  /\ stream.released = 1
  /\ Len(stream.out) = 1


(***************************************************************************)
(* Two generateContentStream calls in flight on one adapter instance.      *)
(* Every call declares its reader, decoder, buffer and accumulators as     *)
(* locals of the generator body; the instance fields (apiKey, baseUrl,     *)
(* proxy, client) are assigned in the constructor only.  The calls         *)
(* interleave at their awaits: one line of one body at a time.             *)
(***************************************************************************)
MaxLinesEach == 2

TwoInit ==
  /\ ResolverIdle
  /\ adapter \in Adapters
  /\ received = <<>>
  /\ bodyDone = FALSE
  /\ tail = NoLine
  /\ stream = InitStream
  /\ second = [received |-> <<>>, bodyDone |-> FALSE, stream |-> InitStream]
  /\ GenIdle
  /\ CountIdle /\ MapIdle /\ MsgIdle
  /\ EndIdle /\ HistoryIdle /\ MemoryIdle /\ ToolIdle /\ ChunkIdle

\* mutant: the accumulated text is kept on the instance, where every call in
\* flight appends to it
ReadLineSecond_SharedAccumulator(line) ==
  /\ second.stream.pc = "reading"
  /\ ~second.bodyDone
  /\ Len(second.received) < MaxLinesEach
  /\ second' = [second EXCEPT
                  !.received = Append(@, line),
                  !.stream = ProcessLine(adapter,
                               [second.stream EXCEPT !.acc = stream.acc], line)]
  /\ UNCHANGED <<adapter, streamVars, ending, historyVars, memoryVars, toolVars>>
  /\ UNCHANGED chunkVars
  /\ UNCHANGED <<resolverVars, genVars, countVars, mapVars, msgVars>>

\* the second call reads a line of its body
ReadLineSecond(line) ==
  /\ second.stream.pc = "reading"
  /\ ~second.bodyDone
  /\ Len(second.received) < MaxLinesEach
  /\ second' = [second EXCEPT
                  !.received = Append(@, line),
                  !.stream = ProcessLine(adapter, second.stream, line)]
  /\ UNCHANGED <<adapter, streamVars, ending, historyVars, memoryVars, toolVars>>
  /\ UNCHANGED chunkVars
  /\ UNCHANGED <<resolverVars, genVars, countVars, mapVars, msgVars>>

\* the body of the second call ends right after a newline
BodyEndsSecond ==
  /\ second.stream.pc = "reading"
  /\ ~second.bodyDone
  /\ second' = [second EXCEPT
                  !.bodyDone = TRUE,
                  !.stream = EndOfBody(adapter, second.stream, NoLine)]
  /\ UNCHANGED <<adapter, streamVars, ending, historyVars, memoryVars, toolVars>>
  /\ UNCHANGED chunkVars
  /\ UNCHANGED <<resolverVars, genVars, countVars, mapVars, msgVars>>

\* either call reads a line of its body, or its body ends
TwoNext ==
  LET lines == { Chunk("He", UNDEF), Chunk("", "stop"), DoneLine }
                 \cap LinesFor(adapter)
  IN \/ \E line \in lines : Len(received) < MaxLinesEach /\ ReadLine(line)
     \/ BodyEnds(NoLine)
     \/ \E line \in lines : ReadLineSecond(line)
     \/ BodyEndsSecond

SpecTwoStreams == TwoInit /\ [][TwoNext]_vars

\* C22: two generateContentStream calls on one instance, their reads
\* interleaved in any order: each call has emitted exactly the responses, and
\* is in exactly the state, of a call that read the same lines alone
C22_ConcurrentStreamsIndependent ==
  /\ stream = Replay(adapter, received, bodyDone, tail)
  /\ second.stream =
       Replay(adapter, second.received, second.bodyDone, NoLine)

C22_Witness ==
  /\ adapter = DS_ACC
  /\ Len(received) = 2 /\ Len(second.received) = 2
  /\ received # second.received
  /\ stream.out # <<>> /\ second.stream.out # <<>>
  /\ stream.out # second.stream.out
  /\ ~bodyDone /\ second.bodyDone


(***************************************************************************)
(* The session history file.  Its content is a list of lines (the pieces   *)
(* of content.split('\n')); a line is a heading '## <timestamp>            *)
(* [<category>]', a text line (written without surrounding whitespace) or  *)
(* a blank line.  A summary is the list of the lines of the summary        *)
(* string.                                                                 *)
(***************************************************************************)
MaxAdds == 2

HistoryLine(kind, timestamp, category, text) ==
  [kind |-> kind, timestamp |-> timestamp, category |-> category, text |-> text]

\* parseSessionHistory, sessionHistoryTool.ts:103-141.  currentEntry is <<>>
\* for null and <<heading>> otherwise; a line matches /^## (.+?) \[(.+?)\]$/
\* when both groups are non-empty.  The joined summary has no blank line and
\* its lines carry no surrounding whitespace, so trim() leaves it as it is.
RECURSIVE parseLines(_, _, _, _)
parseLines(lines, entries, currentEntry, summaryLines) ==
  LET saved == IF currentEntry # <<>> /\ summaryLines # <<>>
               THEN Append(entries,
                           [timestamp |-> currentEntry[1].timestamp,
                            category |-> currentEntry[1].category,
                            summary |-> summaryLines])
               ELSE entries
  IN IF lines = <<>> THEN saved
     ELSE LET line == Head(lines)
          IN IF line.kind = "heading" /\ line.timestamp # ""
                /\ line.category # ""
             THEN parseLines(Tail(lines), saved, <<line>>, <<>>)
             ELSE IF currentEntry # <<>> /\ line.kind # "blank"
             THEN parseLines(Tail(lines), entries, currentEntry,
                             Append(summaryLines, line))
             ELSE parseLines(Tail(lines), entries, currentEntry, summaryLines)

parseSessionHistory(content) == parseLines(content, <<>>, <<>>, <<>>)

\* new Date(timestamp).getTime(), in seconds; a string outside the domain is
\* an invalid date, whose time is NaN
getTime ==
  "2025-01-16T10:00:00.000Z" :> 1737021600
  @@ "2025-01-16T11:00:00.000Z" :> 1737025200
  @@ "2025-01-16T12:00:00.000Z" :> 1737028800

\* [...entries].sort((a, b) => time(b) - time(a)), sessionHistoryTool.ts:151-153:
\* the orders the sort can produce.  With valid dates the comparator is
\* consistent and the sort is stable; a NaN makes it inconsistent, and the
\* order is then implementation-defined.
RECURSIVE sortedEntries(_)
sortedEntries(entries) ==
  LET n == Len(entries)
  IN IF n = 0 THEN { <<>> }
     ELSE IF \A i \in 1..n : entries[i].timestamp \in DOMAIN getTime
     THEN LET x == entries[n]
              rest == CHOOSE r \in sortedEntries(SubSeq(entries, 1, n - 1)) : TRUE
              k == Cardinality({ i \in 1..(n - 1) :
                     getTime[rest[i].timestamp] >= getTime[x.timestamp] })
          IN { SubSeq(rest, 1, k) \o <<x>> \o SubSeq(rest, k + 1, n - 1) }
     ELSE { [i \in 1..n |-> entries[p[i]]] :
              p \in { q \in [1..n -> 1..n] : \A i, j \in 1..n :
                                               q[i] = q[j] => i = j } }

\* formatSessionHistory, sessionHistoryTool.ts:146-165: the contents it can return
formatSessionHistory(entries) ==
  LET Blank == HistoryLine("blank", "", "", "")
      RECURSIVE Body(_)
      Body(es) ==
        IF es = <<>> THEN <<>>
        ELSE <<HistoryLine("heading", Head(es).timestamp, Head(es).category, ""),
               Blank>> \o Head(es).summary \o <<Blank>> \o Body(Tail(es))
  IN IF entries = <<>>
     THEN { <<HistoryLine("text", "", "", "# Session History"), Blank,
              HistoryLine("text", "", "", "No session history saved yet.")>> }
     ELSE { <<HistoryLine("text", "", "", "# Session History"), Blank,
              HistoryLine("text", "", "", "This file contains summaries"),
              Blank>> \o Body(es) : es \in sortedEntries(entries) }

\* addSessionHistoryEntry, sessionHistoryTool.ts:170-187, with a timestamp given
addSessionHistoryEntry(currentContent, entry) ==
  formatSessionHistory(Append(parseSessionHistory(currentContent), entry))

\* the summaries, categories and ISO timestamps of the calls: a one-line
\* summary, one of two paragraphs, and one that quotes a markdown heading
HistoryEntries ==
  LET a == HistoryLine("text", "", "", "Fixed the login bug")
      b == HistoryLine("text", "", "", "Next: add tests")
  IN [ timestamp : DOMAIN getTime,
       category : { "general", "debugging" },
       summary : { <<a>>, <<a, HistoryLine("blank", "", "", ""), b>>,
                   <<a, HistoryLine("heading", "Notes", "todo", ""), b>> } ]

HistoryInit ==
  /\ ResolverIdle /\ adapter = KIMI_CLIENT /\ StreamIdle /\ GenIdle
  /\ CountIdle /\ MapIdle /\ MsgIdle /\ EndIdle /\ TwoIdle /\ MemoryIdle
  /\ ToolIdle /\ ChunkIdle
  /\ historyFile = <<>>
  /\ added = <<>>
  /\ calls = <<>>

\* one whole performAddSessionHistoryEntry call, sessionHistoryTool.ts:317-369:
\* mkdir, readFile (a missing file reads as ''), addSessionHistoryEntry, writeFile
PerformAddSessionHistoryEntry(entry) ==
  /\ Len(added) < MaxAdds
  /\ historyFile' \in addSessionHistoryEntry(historyFile, entry)
  /\ added' = Append(added, entry)
  /\ UNCHANGED <<adapter, calls, ending, second, memoryVars, toolVars, chunkVars>>
  /\ UNCHANGED <<resolverVars, streamVars, genVars, countVars, mapVars, msgVars>>

HistoryNext == \E entry \in HistoryEntries : PerformAddSessionHistoryEntry(entry)

SpecHistory == HistoryInit /\ [][HistoryNext]_vars

\* C23: after any sequence of performAddSessionHistoryEntry calls with valid
\* ISO timestamps, the entries of the session history file are in descending
\* timestamp order
C23_EntriesNewestFirst ==
  LET es == parseSessionHistory(historyFile)
  IN \A i, j \in 1..Len(es) :
       (i < j /\ es[i].timestamp \in DOMAIN getTime
              /\ es[j].timestamp \in DOMAIN getTime)
       => getTime[es[i].timestamp] >= getTime[es[j].timestamp]

\* C24: performAddSessionHistoryEntry on an existing file keeps every entry
\* stored by the earlier calls unchanged (timestamp, category, summary) and
\* adds exactly one entry: the file holds exactly the entries handed to the
\* calls so far
C24_AddKeepsStoredEntries ==
  LET es == parseSessionHistory(historyFile)
  IN Len(added) >= 2 =>
       /\ Len(es) = Len(added)
       /\ \A e \in { added[i] : i \in 1..Len(added) } :
            Cardinality({ i \in 1..Len(es) : es[i] = e }) =
            Cardinality({ i \in 1..Len(added) : added[i] = e })


(***************************************************************************)
(* Two performAddSessionHistoryEntry calls in flight on one file.  A call  *)
(* awaits readFile and later awaits writeFile; nothing orders the reads    *)
(* and writes of different calls.                                          *)
(***************************************************************************)
RaceInit ==
  /\ ResolverIdle /\ adapter = KIMI_CLIENT /\ StreamIdle /\ GenIdle
  /\ CountIdle /\ MapIdle /\ MsgIdle /\ EndIdle /\ TwoIdle /\ MemoryIdle
  /\ ToolIdle /\ ChunkIdle
  /\ historyFile = <<>>
  /\ added = <<>>
  /\ calls \in [1..2 -> [ pc : { "start" },
                          entry : { e \in HistoryEntries : Len(e.summary) = 1 },
                          currentContent : { <<>> } ]]

\* sessionHistoryTool.ts:344-351: call i reads the file
ReadFile(i) ==
  /\ calls[i].pc = "start"
  /\ calls' = [calls EXCEPT ![i].pc = "read",
                            ![i].currentContent = historyFile]
  /\ UNCHANGED <<adapter, historyFile, added, ending, second, memoryVars,
                 toolVars, chunkVars>>
  /\ UNCHANGED <<resolverVars, streamVars, genVars, countVars, mapVars, msgVars>>

\* sessionHistoryTool.ts:353-360: call i writes what it built from what it read
WriteFile(i) ==
  /\ calls[i].pc = "read"
  /\ historyFile' \in
       addSessionHistoryEntry(calls[i].currentContent, calls[i].entry)
  /\ calls' = [calls EXCEPT ![i].pc = "done"]
  /\ UNCHANGED <<adapter, added, ending, second, memoryVars, toolVars, chunkVars>>
  /\ UNCHANGED <<resolverVars, streamVars, genVars, countVars, mapVars, msgVars>>

RaceNext == \E i \in 1..2 : ReadFile(i) \/ WriteFile(i)

SpecHistoryRace == RaceInit /\ [][RaceNext]_vars

\* C29: two concurrent performAddSessionHistoryEntry calls on one file both
\* take effect: once both have returned the file holds both entries,
\* whatever the interleaving of their reads and writes
C29_BothAddsTakeEffect ==
  (\A i \in 1..2 : calls[i].pc = "done") =>
    LET es == parseSessionHistory(historyFile)
    IN /\ Len(es) = 2
       /\ \A i \in 1..2 : \E k \in 1..Len(es) : es[k] = calls[i].entry


(***************************************************************************)
(* The clear_memory tool.  The content of the memory file is the list of   *)
(* its pieces content.split('\n'): '' is a blank line, and a last piece    *)
(* '' is the final newline.                                                *)
(***************************************************************************)
MaxFileLines == 4
MaxInvocations == 3

\* memoryTool.js (not among the sources here); the value the tests use
MEMORY_SECTION_HEADER == "## Gemini Added Memories"

\* clearMemorySection, clearMemoryTool.ts:53-85.  indexOf(header) is the first
\* header line; indexOf('\n## ', ...) the first later line starting '## ';
\* trimEnd drops the blank lines that end the text before, trimStart the
\* newline that begins the text after.
clearMemorySection(currentContent) ==
  LET n == Len(currentContent)
      headers == { i \in 1..n : currentContent[i] = MEMORY_SECTION_HEADER }
      headerIndex == CHOOSE i \in headers : \A j \in headers : i <= j
      ends == { i \in (headerIndex + 1)..n :
                  /\ Len(currentContent[i]) >= 3
                  /\ SubSeq(currentContent[i], 1, 3) = "## " }
      endOfSectionIndex == IF ends = {} THEN n + 1
                           ELSE CHOOSE i \in ends : \A j \in ends : i <= j
      kept == { i \in 1..(headerIndex - 1) : currentContent[i] # "" }
      beforeSection ==
        IF kept = {} THEN <<>>
        ELSE SubSeq(currentContent, 1, CHOOSE i \in kept : \A j \in kept : j <= i)
      afterSection == SubSeq(currentContent, endOfSectionIndex, n)
  IN IF headers = {} THEN currentContent
     ELSE IF beforeSection # <<>> /\ afterSection # <<>>
     THEN beforeSection \o <<"">> \o afterSection
     ELSE IF beforeSection # <<>> THEN beforeSection \o <<"">>
     ELSE IF afterSection # <<>> THEN afterSection
     ELSE <<"">>

\* shouldConfirmExecute, clearMemoryTool.ts:91-138: TRUE when it returns
\* confirmation details, FALSE when it returns false
shouldConfirmExecute(force, list, path, exists) ==
  IF force THEN FALSE
  ELSE IF path \in list THEN FALSE
  ELSE exists

\* mutant: every answer is remembered
onConfirm_AnyOutcome(list, path, outcome) == list \cup { path }

\* onConfirm, clearMemoryTool.ts:123-127
onConfirm(list, path, outcome) ==
  IF outcome = "proceed_always" THEN list \cup { path } ELSE list

\* memoryCommand clear, part_001:207-228: '/memory clear --force' invokes the
\* tool with force: true; the model may invoke it without force
ShouldConfirmExecute(force) ==
  /\ Len(invocations) < MaxInvocations
  /\ invocations # <<>> => invocations[Len(invocations)].pc = "done"
  /\ LET asked == shouldConfirmExecute(force, allowlist, "GEMINI.md",
                                       memoryFile # <<>>)
     IN invocations' = Append(invocations,
          [force |-> force, existed |-> memoryFile # <<>>, asked |-> asked,
           outcome |-> "none",
           pc |-> IF asked THEN "confirming" ELSE "executing"])
  /\ UNCHANGED <<adapter, memoryFile, originalContent, allowlist>>
  /\ UNCHANGED <<resolverVars, streamVars, genVars, countVars, mapVars, msgVars>>
  /\ UNCHANGED <<ending, second, historyVars, toolVars, chunkVars>>

\* the user answers the confirmation: onConfirm runs, and the invocation is
\* executed unless the answer is cancel
OnConfirm(outcome) ==
  /\ invocations # <<>>
  /\ invocations[Len(invocations)].pc = "confirming"
  /\ allowlist' = onConfirm(allowlist, "GEMINI.md", outcome)
  /\ invocations' = [invocations EXCEPT
       ![Len(invocations)].outcome = outcome,
       ![Len(invocations)].pc = IF outcome = "cancel" THEN "done"
                                ELSE "executing"]
  /\ UNCHANGED <<adapter, memoryFile, originalContent>>
  /\ UNCHANGED <<resolverVars, streamVars, genVars, countVars, mapVars, msgVars>>
  /\ UNCHANGED <<ending, second, historyVars, toolVars, chunkVars>>

\* execute, clearMemoryTool.ts:140-188: readFile, clearMemorySection,
\* writeFile; a missing file is left missing
Execute ==
  /\ invocations # <<>>
  /\ invocations[Len(invocations)].pc = "executing"
  /\ invocations' = [invocations EXCEPT ![Len(invocations)].pc = "done"]
  /\ IF memoryFile = <<>>
     THEN UNCHANGED <<memoryFile, originalContent>>
     ELSE /\ originalContent' = memoryFile
          /\ memoryFile' = clearMemorySection(memoryFile)
  /\ UNCHANGED <<adapter, allowlist>>
  /\ UNCHANGED <<resolverVars, streamVars, genVars, countVars, mapVars, msgVars>>
  /\ UNCHANGED <<ending, second, historyVars, toolVars, chunkVars>>

\* one forced invocation about to execute on a memory file of up to
\* MaxFileLines pieces
ClearInit ==
  /\ ResolverIdle /\ adapter = KIMI_CLIENT /\ StreamIdle /\ GenIdle
  /\ CountIdle /\ MapIdle /\ MsgIdle /\ EndIdle /\ TwoIdle /\ HistoryIdle
  /\ ToolIdle /\ ChunkIdle
  /\ memoryFile \in
       SeqsUpTo({ "Some content here.", "", MEMORY_SECTION_HEADER,
                  "- Remember this fact", "## Other Section", "### Details" },
                MaxFileLines) \ { <<>> }
  /\ originalContent = <<>>
  /\ allowlist = {}
  /\ invocations = <<[force |-> TRUE, existed |-> TRUE, asked |-> FALSE,
                      outcome |-> "none", pc |-> "executing"]>>

ClearNext == Execute

SpecClearMemory == ClearInit /\ [][ClearNext]_vars

\* invocations, forced or not, on a missing file or on one with a memory section
ConfirmInit ==
  /\ ResolverIdle /\ adapter = KIMI_CLIENT /\ StreamIdle /\ GenIdle
  /\ CountIdle /\ MapIdle /\ MsgIdle /\ EndIdle /\ TwoIdle /\ HistoryIdle
  /\ ToolIdle /\ ChunkIdle
  /\ memoryFile \in { <<>>, <<MEMORY_SECTION_HEADER, "- Remember this fact">> }
  /\ originalContent = <<>>
  /\ allowlist = {}
  /\ invocations = <<>>

ConfirmNext ==
  \/ \E force \in BOOLEAN : ShouldConfirmExecute(force)
  \/ \E outcome \in { "proceed_once", "proceed_always", "cancel" } :
       OnConfirm(outcome)
  \/ Execute

SpecConfirm == ConfirmInit /\ [][ConfirmNext]_vars

\* C25: after a successful clear_memory execute the file holds no memory
\* section header any more, its non-blank lines are those before the section
\* followed by those from the next '## ' heading on, and a file without a
\* memory section is written back unchanged
C25_MemorySectionRemoved ==
  LET n == Len(originalContent)
      NonBlank(c) == SelectSeq(c, LAMBDA l : l # "")
      headers == { i \in 1..n : originalContent[i] = MEMORY_SECTION_HEADER }
      h == CHOOSE i \in headers : \A j \in headers : i <= j
      ends == { i \in (h + 1)..n : Len(originalContent[i]) >= 3
                                   /\ SubSeq(originalContent[i], 1, 3) = "## " }
      e == IF ends = {} THEN n + 1 ELSE CHOOSE i \in ends : \A j \in ends : i <= j
  IN originalContent # <<>> =>
       /\ \A i \in 1..Len(memoryFile) : memoryFile[i] # MEMORY_SECTION_HEADER
       /\ headers = {} => memoryFile = originalContent
       /\ headers # {} =>
            NonBlank(memoryFile) =
              NonBlank(SubSeq(originalContent, 1, h - 1))
              \o NonBlank(SubSeq(originalContent, e, n))

C26_AccumulatorGrowsThenFreezes ==
  [][ /\ Len(stream'.acc) >= Len(stream.acc)
      /\ (\E i \in 1..Len(received) : HasFinish(received[i]))
           => /\ stream'.acc = stream.acc
              /\ stream'.usageMetadata = stream.usageMetadata ]_vars


(***************************************************************************)
(* Tool calls in a DeepSeek stream.  A frame is a chunk whose              *)
(* delta.tool_calls holds one fragment [index, function.name,              *)
(* function.arguments], or a chunk with a finish_reason.  A parsed         *)
(* arguments object is the set of its <<key, value>> pairs.                *)
(***************************************************************************)
MaxFrames == 4

\* JSON.parse of an arguments string: <<object>>, or <<>> when it throws
JSONParse(text) ==
  IF text = "{\"path\":\"a.txt\"}" THEN << { <<"path", "a.txt">> } >>
  ELSE IF text = "{}" THEN << {} >>
  ELSE <<>>

\* the frames of a stream: per call index the first fragment with the name and
\* no or some arguments, and a continuation; or the finish signal
ToolFrames ==
  [ index : 0..1, finish : { UNDEF },
    function : { [name |-> "read_file", arguments |-> ""],
                 [name |-> "read_file", arguments |-> "{\"path\":"],
                 [name |-> "", arguments |-> "\"a.txt\"}"] } ]
  \cup { [index |-> 0, finish |-> "tool_calls",
          function |-> [name |-> "", arguments |-> ""]] }

\* DeepSeekContentGenerator of part_002, part_002:384-430, on a frame without
\* content.  accumulatedToolCalls[i + 1] is <<>> for a hole of the array.  A
\* hole makes `toolCall.name` throw and an incomplete blob makes JSON.parse
\* throw: the catch at 454 swallows both before the yield.
DSAccToolFrame(s, frame) ==
  IF frame.finish = UNDEF
  THEN LET pos == frame.index + 1
           old == s.accumulatedToolCalls
           len == IF Len(old) >= pos THEN Len(old) ELSE pos
           call == IF pos <= Len(old) /\ old[pos] # <<>>
                   THEN [old[pos][1] EXCEPT
                           !.arguments = @ \o frame.function.arguments]
                   ELSE frame.function
       IN [ accumulatedToolCalls |->
              [i \in 1..len |-> IF i = pos THEN <<call>>
                                ELSE IF i <= Len(old) THEN old[i] ELSE <<>>],
            isFirstChunk |-> FALSE,
            out |-> IF s.isFirstChunk THEN Append(s.out, <<>>) ELSE s.out ]
  ELSE LET list == s.accumulatedToolCalls
           blob(c) == IF c.arguments = "" THEN "{}" ELSE c.arguments
           named == SelectSeq(list, LAMBDA c : c # <<>> /\ c[1].name # "")
       IN IF \E i \in 1..Len(list) :
               \/ list[i] = <<>>
               \/ list[i][1].name # "" /\ JSONParse(blob(list[i][1])) = <<>>
          THEN s
          ELSE [s EXCEPT
                  !.out = Append(@, [i \in 1..Len(named) |->
                            [name |-> named[i][1].name,
                             args |-> JSONParse(blob(named[i][1]))[1]]]),
                  !.accumulatedToolCalls = <<>>]

\* DeepSeekContentGenerator of part_003: convertDeepSeekStreamChunkToGemini,
\* part_003:269-288, yields a response for every frame
DSFnToolFrame(s, frame) ==
  LET f == frame.function
  IN [s EXCEPT !.out = Append(@,
        IF frame.finish # UNDEF THEN <<>>
        ELSE IF f.arguments = "" THEN <<[name |-> f.name, args |-> {}]>>
        ELSE IF JSONParse(f.arguments) # <<>>
        THEN <<[name |-> f.name, args |-> JSONParse(f.arguments)[1]]>>
        ELSE <<>>)]

ToolInit ==
  /\ ResolverIdle /\ StreamIdle /\ GenIdle
  /\ CountIdle /\ MapIdle /\ MsgIdle /\ EndIdle /\ TwoIdle /\ HistoryIdle
  /\ MemoryIdle /\ ChunkIdle
  /\ adapter \in { DS_ACC, DS_FN }
  /\ toolFrames = <<>>
  /\ toolStream = [accumulatedToolCalls |-> <<>>, isFirstChunk |-> TRUE,
                   out |-> <<>>]

\* the stream reads one more frame
ReadToolFrame(frame) ==
  /\ Len(toolFrames) < MaxFrames
  /\ toolFrames' = Append(toolFrames, frame)
  /\ toolStream' = IF adapter = DS_ACC THEN DSAccToolFrame(toolStream, frame)
                   ELSE DSFnToolFrame(toolStream, frame)
  /\ UNCHANGED <<adapter, ending, second, historyVars, memoryVars, chunkVars>>
  /\ UNCHANGED <<resolverVars, streamVars, genVars, countVars, mapVars, msgVars>>

ToolNext == \E frame \in ToolFrames : ReadToolFrame(frame)

SpecToolCalls == ToolInit /\ [][ToolNext]_vars

\* C27: when the finish signal arrives after fragments whose names are
\* present and whose concatenated arguments are complete JSON, no tool-call
\* part has been emitted before it, and the final response holds, per call
\* index, one tool-call part with the name of the index's first fragment and
\* the parsed concatenation of its argument fragments in arrival order
C27_ToolCallsAssembledAtFinish ==
  LET n == Len(toolFrames)
      fragments == SubSeq(toolFrames, 1, n - 1)
      of(i) == SelectSeq(fragments, LAMBDA f : f.index = i)
      blob(i) == LET text == Join([k \in 1..Len(of(i)) |->
                                    of(i)[k].function.arguments], "")
                 IN IF text = "" THEN "{}" ELSE text
      indices == { i \in 0..1 : of(i) # <<>> }
      part(i) == IF i \in indices
                 THEN <<[name |-> of(i)[1].function.name,
                         args |-> JSONParse(blob(i))[1]]>>
                 ELSE <<>>
  IN ( /\ n >= 2
       /\ toolFrames[n].finish # UNDEF
       /\ \A k \in 1..(n - 1) : toolFrames[k].finish = UNDEF
       /\ \A i \in indices : /\ of(i)[1].function.name # ""
                             /\ JSONParse(blob(i)) # <<>> )
     => /\ toolStream.out # <<>>
        /\ toolStream.out[Len(toolStream.out)] = part(0) \o part(1)
        /\ \A k \in 1..(Len(toolStream.out) - 1) : toolStream.out[k] = <<>>


(***************************************************************************)
(* The transport.  The body is a list of byte runs; reader.read() delivers *)
(* the next one or more runs as one chunk, so a chunk can end in the       *)
(* middle of a line.  The Hunyuan adapter is handed parsed chunks by the   *)
(* SDK and never sees the bytes.                                           *)
(***************************************************************************)
MaxBody == 5
MaxChunk == 2

\* text.split('\n') of the concatenation of runs
RECURSIVE SplitLines(_)
SplitLines(runs) ==
  IF runs = <<>> THEN <<"">>
  ELSE LET n == Len(runs)
           pieces == SplitLines(SubSeq(runs, 1, n - 1))
       IN IF runs[n] = "\n" THEN Append(pieces, "")
          ELSE [pieces EXCEPT ![Len(pieces)] = @ \o runs[n]]

\* what the read loops make of one line of text: '{He}' stands for the JSON of
\* a chunk with delta.content 'He'
ParseLine(text) ==
  IF text = "" THEN BlankLine
  ELSE IF text = "data: [DONE]" THEN DoneLine
  ELSE IF text = "data: {He}" THEN Chunk("He", UNDEF)
  ELSE IF Len(text) >= 6 /\ SubSeq(text, 1, 6) = "data: " THEN GarbageLine
  ELSE CommentLine

ChunkInit ==
  /\ ResolverIdle /\ GenIdle
  /\ CountIdle /\ MapIdle /\ MsgIdle /\ EndIdle /\ TwoIdle /\ HistoryIdle
  /\ MemoryIdle /\ ToolIdle
  /\ adapter \in Adapters \ { HUNYUAN }
  /\ received = <<>>
  /\ bodyDone = FALSE
  /\ tail = NoLine
  /\ stream = InitStream
  /\ body \in SeqsUpTo({ "\n", "data: ", "{He}", "data: [DONE]" }, MaxBody)
  /\ delivered = 0
  /\ buffer = ""

\* mutant: the text after the last newline is not carried to the next chunk
ReadChunk_NoCarry(k) ==
  /\ stream.pc = "reading"
  /\ ~bodyDone
  /\ delivered + k <= Len(body)
  /\ LET pieces == SplitLines(SubSeq(body, delivered + 1, delivered + k))
         lines == [i \in 1..(Len(pieces) - 1) |-> ParseLine(pieces[i])]
     IN /\ stream' = RunLines(adapter, stream, lines)
        /\ received' = received \o lines
        /\ buffer' = ""
  /\ delivered' = delivered + k
  /\ UNCHANGED <<adapter, bodyDone, tail, body>>
  /\ UNCHANGED <<resolverVars, genVars, countVars, mapVars, msgVars>>
  /\ UNCHANGED <<ending, second, historyVars, memoryVars, toolVars>>

\* reader.read() delivers the next k runs: buffer += chunk, the complete lines
\* are processed in order, the last piece stays in the buffer
ReadChunk(k) ==
  /\ stream.pc = "reading"
  /\ ~bodyDone
  /\ delivered + k <= Len(body)
  /\ LET pieces == SplitLines(SubSeq(body, delivered + 1, delivered + k))
         joined == [pieces EXCEPT ![1] = buffer \o @]
         lines == [i \in 1..(Len(joined) - 1) |-> ParseLine(joined[i])]
     IN /\ stream' = RunLines(adapter, stream, lines)
        /\ received' = received \o lines
        /\ buffer' = joined[Len(joined)]
  /\ delivered' = delivered + k
  /\ UNCHANGED <<adapter, bodyDone, tail, body>>
  /\ UNCHANGED <<resolverVars, genVars, countVars, mapVars, msgVars>>
  /\ UNCHANGED <<ending, second, historyVars, memoryVars, toolVars>>

\* reader.read() reports done once the whole body has been delivered
ChunkedBodyEnds ==
  /\ stream.pc = "reading"
  /\ ~bodyDone
  /\ delivered = Len(body)
  /\ bodyDone' = TRUE
  /\ tail' = IF buffer = "" THEN NoLine ELSE ParseLine(buffer)
  /\ stream' = EndOfBody(adapter, stream, tail')
  /\ UNCHANGED <<adapter, received, chunkVars>>
  /\ UNCHANGED <<resolverVars, genVars, countVars, mapVars, msgVars>>
  /\ UNCHANGED <<ending, second, historyVars, memoryVars, toolVars>>

ChunkNext ==
  \/ \E k \in 1..MaxChunk : ReadChunk(k)
  \/ ChunkedBodyEnds

SpecChunks == ChunkInit /\ [][ChunkNext]_vars

\* C28: the responses depend on the bytes only: whatever the chunks, the
\* stream has emitted what a call handed the delivered bytes in one chunk
\* has emitted, and a stream that is over has emitted what a call handed the
\* whole body in one chunk emits
C28_ChunkingDoesNotMatter ==
  LET Whole(runs, ended) ==
        LET pieces == SplitLines(runs)
            last == pieces[Len(pieces)]
        IN Replay(adapter,
                  [i \in 1..(Len(pieces) - 1) |-> ParseLine(pieces[i])],
                  ended, IF last = "" THEN NoLine ELSE ParseLine(last))
  IN /\ stream.out = Whole(SubSeq(body, 1, delivered), bodyDone).out
     /\ stream.pc = "closed" => stream = Whole(body, TRUE)

C28_Witness ==
  /\ adapter = DS_FN
  /\ body = <<"data: ", "{He}", "\n", "data: ", "{He}">>
  /\ buffer = "data: "
  /\ delivered = 4
  /\ Len(stream.out) = 1

=============================================================================
